---- MODULE Spec2Model ----
(***************************************************************************)
(* gridly: typed grid coordinates (Row, Column, Location), the GridBounds  *)
(* bounds contract, checked / unchecked cell access, and the View and      *)
(* SingleView iteration layer.                                             *)
(*                                                                         *)
(* One grid is modelled.  Its root and extents are chosen at construction  *)
(* and never change.  Every action is one call of a public operation; the  *)
(* call, its argument, its result and the Locations it handed to the       *)
(* unchecked access primitive are recorded in `last`.                      *)
(***************************************************************************)
EXTENDS Integers, Sequences, FiniteSets

VARIABLES
    root_row,         \* GridBounds::root_row(), a Row
    root_column,      \* GridBounds::root_column(), a Column
    num_rows,         \* GridBounds::num_rows(), a Rows distance
    num_columns,      \* GridBounds::num_columns(), a Columns distance
    overflow_checks,  \* build profile: TRUE = integer overflow panics, FALSE = it wraps
    cells,            \* the storage collaborator: the Locations it holds a cell for
    view,             \* the SingleView the program currently holds, or NoView
    last,             \* the last call: [op, arg, res, calls]
    halted            \* TRUE once a panic has terminated the program

vars == <<root_row, root_column, num_rows, num_columns, overflow_checks,
          cells, view, last, halted>>

grid_vars == <<root_row, root_column, num_rows, num_columns, overflow_checks>>

-----------------------------------------------------------------------------
(* Bounds of the model.                                                    *)

\* isize is modelled as the two's-complement range -(MaxInt+1) .. MaxInt
MaxInt == 2

\* extents (num_rows, num_columns) of the grids explored: 0 .. MaxExtent
MaxExtent == 2

\* roots of the grids explored: -MaxRoot, 0 and MaxRoot
MaxRoot == 1

IntMin == -(MaxInt + 1)

ISize == IntMin .. MaxInt

\* two's complement wrap-around of a mathematical integer into ISize
Wrap(n) == ((n - IntMin) % (2 * (MaxInt + 1))) + IntMin

-----------------------------------------------------------------------------
(* Result<T, E>, and a panic unwinding out of a call.                      *)

Ok(v) == [tag |-> "Ok", val |-> v]

Err(e) == [tag |-> "Err", err |-> e]

\* a value returned by a call that returns no Result
Ret(v) == [tag |-> "Ret", val |-> v]

Panic(m) == [tag |-> "Panic", msg |-> m]

IsOk(r) == r.tag = "Ok"

IsErr(r) == r.tag = "Err"

IsPanic(r) == r.tag = "Panic"

\* Result::is_ok() of a call's outcome; a panic in the call propagates
is_ok(r) == IF IsPanic(r) THEN r ELSE Ret(r.tag = "Ok")

-----------------------------------------------------------------------------
(* Coordinate component model (location.rs).                               *)

\* pub struct Row(pub isize)
Row(n) == [axis |-> "Row", n |-> n]

\* pub struct Column(pub isize)
Column(n) == [axis |-> "Column", n |-> n]

\* the displacement types Rows / Columns of crate::vector
Rows(n) == [axis |-> "Row", d |-> n]

Columns(n) == [axis |-> "Column", d |-> n]

Component(axis, n) == [axis |-> axis, n |-> n]

\* Component::Converse
Converse(axis) == IF axis = "Row" THEN "Column" ELSE "Row"

Axes == {"Row", "Column"}

\* Location::new(row, column)
Location_new(row, column) == [row |-> row, column |-> column]

RowSet == {Row(n) : n \in ISize}

ColumnSet == {Column(n) : n \in ISize}

Locations == {Location_new(r, c) : r \in RowSet, c \in ColumnSet}

\* combine with the Column arm written like the Row arm: (self, other) => (self, other)
combine_same_order(self, other) == Location_new(self, other)

\* Component::combine: Row is (self, other) => (self, other),
\* Column is (self, other) => (other, self)
combine(self, other) ==
    IF self.axis = "Row" THEN Location_new(self, other)
    ELSE Location_new(other, self)

\* Component::from_location: loc.row for Row, loc.column for Column
from_location(axis, loc) == IF axis = "Row" THEN loc.row ELSE loc.column

\* Location::get_component::<T>()
get_component(axis, loc) == from_location(axis, loc)

\* isize addition: exact when representable; otherwise a panic when the build
\* has overflow checks, two's-complement wrap-around when it has not
isize_add(a, b) ==
    IF a + b \in ISize THEN Ret(a + b)
    ELSE IF overflow_checks THEN Panic("attempt to add with overflow")
    ELSE Ret(Wrap(a + b))

\* impl Add<T: Into<Distance>> for Row / Column: $Name(self.0 + rhs.into().0)
component_add(self, rhs) ==
    LET s == isize_add(self.n, rhs.d)
    IN  IF IsPanic(s) THEN s ELSE Ret(Component(self.axis, s.val))

-----------------------------------------------------------------------------
(* Bounds contract (grid.rs, trait GridBounds).                            *)

\* enum RangeError<T> { TooLow(T), TooHigh(T) }
TooLow(c) == [kind |-> "TooLow", bound |-> c]

TooHigh(c) == [kind |-> "TooHigh", bound |-> c]

\* enum LocationRangeError { Row(RangeError<Row>), Column(RangeError<Column>) },
\* derive(From): the variant is chosen by the error's component type
LocationRangeError(e) == [variant |-> e.bound.axis, e |-> e]

\* check_row reporting the last valid row, max_row - 1, in TooHigh
check_row_last_valid(row) ==
    LET min_row == root_row
    IN  IF row.n < min_row.n THEN Err(TooLow(min_row))
        ELSE LET max_row == component_add(min_row, num_rows)
             IN  IF IsPanic(max_row) THEN max_row
                 ELSE IF row.n >= max_row.val.n
                      THEN Err(TooHigh(Row(max_row.val.n - 1)))
                 ELSE Ok(row)

\* GridBounds::check_row
check_row(row) ==
    LET min_row == root_row
    IN  IF row.n < min_row.n THEN Err(TooLow(min_row))
        ELSE LET max_row == component_add(min_row, num_rows)
             IN  IF IsPanic(max_row) THEN max_row
                 ELSE IF row.n >= max_row.val.n THEN Err(TooHigh(max_row.val))
                 ELSE Ok(row)

\* GridBounds::row_in_bounds
row_in_bounds(row) == is_ok(check_row(row))

\* check_column with an inclusive upper bound: column > max_column
check_column_inclusive(column) ==
    LET min_column == root_column
    IN  IF column.n < min_column.n THEN Err(TooLow(min_column))
        ELSE LET max_column == component_add(min_column, num_columns)
             IN  IF IsPanic(max_column) THEN max_column
                 ELSE IF column.n > max_column.val.n THEN Err(TooHigh(max_column.val))
                 ELSE Ok(column)

\* GridBounds::check_column
check_column(column) ==
    LET min_column == root_column
    IN  IF column.n < min_column.n THEN Err(TooLow(min_column))
        ELSE LET max_column == component_add(min_column, num_columns)
             IN  IF IsPanic(max_column) THEN max_column
                 ELSE IF column.n >= max_column.val.n THEN Err(TooHigh(max_column.val))
                 ELSE Ok(column)

\* GridBounds::column_in_bounds
column_in_bounds(column) == is_ok(check_column(column))

\* check_location checking the column before the row
check_location_column_first(loc) ==
    LET c == check_column(loc.column)
    IN  IF IsPanic(c) THEN c
        ELSE IF IsErr(c) THEN Err(LocationRangeError(c.err))
        ELSE LET r == check_row(loc.row)
             IN  IF IsPanic(r) THEN r
                 ELSE IF IsErr(r) THEN Err(LocationRangeError(r.err))
                 ELSE Ok(loc)

\* GridBounds::check_location: self.check_row(loc.row)?; self.check_column(loc.column)?; Ok(loc)
check_location(loc) ==
    LET r == check_row(loc.row)
    IN  IF IsPanic(r) THEN r
        ELSE IF IsErr(r) THEN Err(LocationRangeError(r.err))
        ELSE LET c == check_column(loc.column)
             IN  IF IsPanic(c) THEN c
                 ELSE IF IsErr(c) THEN Err(LocationRangeError(c.err))
                 ELSE Ok(loc)

\* GridBounds::location_in_bounds
location_in_bounds(loc) == is_ok(check_location(loc))

-----------------------------------------------------------------------------
(* Storage collaborator and the access layer (trait BaseGrid / Grid).      *)

\* a Location is in bounds: row in [root_row, root_row + num_rows) and
\* column in [root_column, root_column + num_columns), over the integers
InBounds(loc) ==
    /\ root_row.n <= loc.row.n
    /\ loc.row.n < root_row.n + num_rows.d
    /\ root_column.n <= loc.column.n
    /\ loc.column.n < root_column.n + num_columns.d

\* the Locations the storage collaborator holds a cell for
StoredLocations == {loc \in Locations : InBounds(loc)}

\* a reference to the cell stored at loc
CellRef(loc) == [cell_at |-> loc]

\* the outcome of an access that has undefined behaviour is not determined
Undefined == [tag |-> "Undefined", val |-> [wild |-> TRUE]]

\* BaseGrid::get_unchecked: the cell at loc; the implementor assumes loc was
\* bounds checked, so a Location it holds no cell for is undefined behaviour
get_unchecked(loc) == IF loc \in cells THEN CellRef(loc) ELSE Undefined

\* BaseGridMut::get_unchecked_mut: as get_unchecked, for an exclusive borrow
get_unchecked_mut(loc) == IF loc \in cells THEN CellRef(loc) ELSE Undefined

\* what a call that ran into undefined behaviour may produce: a crash, or a
\* reference to whatever the wild address holds
UndefinedOutcomes == {Panic("undefined behaviour"), Undefined}

\* the outcomes of a call that computed res and made the unchecked accesses calls
Outcomes(res, calls) ==
    IF \A i \in 1 .. Len(calls) : calls[i] \in cells THEN {res}
    ELSE UndefinedOutcomes

\* Grid::get: self.check_location(location).map(|loc| unsafe { self.get_unchecked(&loc) })
get(location) ==
    LET chk == check_location(location)
    IN  IF IsOk(chk)
        THEN [res |-> Ok(get_unchecked(chk.val)), calls |-> <<chk.val>>]
        ELSE [res |-> chk, calls |-> <<>>]

\* get_mut reaching for the cell before it looks at the check's result
get_mut_access_first(location) ==
    LET chk == check_location(location)
    IN  IF IsOk(chk)
        THEN [res |-> Ok(get_unchecked_mut(chk.val)), calls |-> <<chk.val>>, grid |-> cells]
        ELSE [res |-> chk, calls |-> <<location>>, grid |-> cells]

\* GridMut::get_mut: self.check_location(location).map(|loc| unsafe { self.get_unchecked_mut(&loc) });
\* it takes &mut self: `grid` is the storage as the call leaves it
get_mut(location) ==
    LET chk == check_location(location)
    IN  IF IsOk(chk)
        THEN [res |-> Ok(get_unchecked_mut(chk.val)), calls |-> <<chk.val>>, grid |-> cells]
        ELSE [res |-> chk, calls |-> <<>>, grid |-> cells]

-----------------------------------------------------------------------------
(* Parts of the crate that view.rs uses and that are not among the source  *)
(* files: the per-axis bounds check and the axis ranges.                   *)

\* GridBounds::check_component::<T>: the bounds check of T's axis
check_component(index) ==
    IF index.axis = "Row" THEN check_row(index) ELSE check_column(index)

\* GridBounds root and extent of an axis
root_of(axis) == IF axis = "Row" THEN root_row ELSE root_column

extent_of(axis) == IF axis = "Row" THEN num_rows ELSE num_columns

\* the components from.n, from.n + 1, ..., to.n - 1 of an axis, in order
ComponentsBetween(axis, from, to) ==
    IF to <= from THEN <<>>
    ELSE [i \in 1 .. (to - from) |-> Component(axis, from + i - 1)]

\* GridBounds::range::<T>: Range<T>, the half-open sequence of component values
\* between the root (inclusive) and root + extent (exclusive)
range(axis) ==
    LET end == component_add(root_of(axis), extent_of(axis))
    IN  IF IsPanic(end) THEN end
        ELSE Ret(ComponentsBetween(axis, root_of(axis).n, end.val.n))

\* LocationRange::new(index, range): the Locations index.combine(cross),
\* cross running over the range of the converse axis
LocationRange_new(index, cross_range) ==
    [i \in 1 .. Len(cross_range) |-> combine(index, cross_range[i])]

\* T::name()
name(axis) == IF axis = "Row" THEN "Row out of range" ELSE "Column out of range"

\* the calls made on a double-ended iterator
Ends == {"next", "next_back"}

\* DoubleEndedIterator over a sequence: the items that the calls of `pattern`
\* yield, next taking the first remaining item and next_back the last one;
\* once nothing remains the calls yield nothing
RECURSIVE Consume(_, _)
Consume(items, pattern) ==
    IF pattern = <<>> \/ items = <<>> THEN <<>>
    ELSE IF Head(pattern) = "next"
         THEN <<Head(items)>> \o Consume(Tail(items), Tail(pattern))
         ELSE <<items[Len(items)]>>
                  \o Consume(SubSeq(items, 1, Len(items) - 1), Tail(pattern))

-----------------------------------------------------------------------------
(* View and SingleView (view.rs).                                          *)

NoView == [tag |-> "NoView"]

\* SingleView::new_unchecked: Self { grid, index }
new_unchecked(index) == [tag |-> "SingleView", index |-> index]

\* SingleView::new without the bounds check of its index
SingleView_new_no_check(index) == Ok(new_unchecked(index))

\* SingleView::new: grid.check_component(index).map(|index| unsafe { Self::new_unchecked(grid, index) })
SingleView_new(index) ==
    LET chk == check_component(index)
    IN  IF IsOk(chk) THEN Ok(new_unchecked(chk.val)) ELSE chk

\* Grid::single_view
single_view(index) == SingleView_new(index)

\* Grid::row: self.single_view(row.into())
row(r) == single_view(r)

\* Grid::column: self.single_view(column.into())
column(c) == single_view(c)

\* View::get: SingleView::new(self.grid, index.into())
View_get(index) == SingleView_new(index)

\* View::range: self.grid.range()
View_range(axis) == range(axis)

\* View::iter that starts one past the root: the range shifted by one
View_iter_shifted(axis, pattern) ==
    LET r == View_range(axis)
    IN  IF IsPanic(r) THEN r
        ELSE LET yielded == Consume(r.val, pattern)
             IN  Ret([i \in 1 .. Len(yielded) |->
                         new_unchecked(Component(axis, yielded[i].n + 1))])

\* View::iter: self.range().map(move |index| unsafe { SingleView::new_unchecked(grid, index) }),
\* consumed by the calls of `pattern`
View_iter(axis, pattern) ==
    LET r == View_range(axis)
    IN  IF IsPanic(r) THEN r
        ELSE LET yielded == Consume(r.val, pattern)
             IN  Ret([i \in 1 .. Len(yielded) |-> new_unchecked(yielded[i])])

\* SingleView::get_unchecked: self.grid.get_unchecked(&self.index.combine(cross))
SingleView_get_unchecked(self, cross) ==
    [res |-> get_unchecked(combine(self.index, cross)),
     calls |-> <<combine(self.index, cross)>>]

\* SingleView::get validating the view's own index instead of the cross value
SingleView_get_checks_index(self, cross) ==
    LET chk == check_component(self.index)
    IN  IF IsOk(chk)
        THEN LET u == SingleView_get_unchecked(self, cross)
             IN  [res |-> Ok(u.res), calls |-> u.calls]
        ELSE [res |-> chk, calls |-> <<>>]

\* SingleView::get: self.grid.check_component(cross.into()).map(|cross| unsafe { self.get_unchecked(cross) })
SingleView_get(self, cross) ==
    LET chk == check_component(cross)
    IN  IF IsOk(chk)
        THEN LET u == SingleView_get_unchecked(self, chk.val)
             IN  [res |-> Ok(u.res), calls |-> u.calls]
        ELSE [res |-> chk, calls |-> <<>>]

\* SingleView::range: LocationRange::new(self.index, self.grid.range())
SingleView_range(self) ==
    LET r == range(Converse(self.index.axis))
    IN  IF IsPanic(r) THEN r ELSE Ret(LocationRange_new(self.index, r.val))

\* SingleView::iter: self.range().map(move |loc| unsafe { grid.get_unchecked(&loc) })
SingleView_iter(self, pattern) ==
    LET r == SingleView_range(self)
    IN  IF IsPanic(r) THEN [res |-> r, calls |-> <<>>]
        ELSE LET yielded == Consume(r.val, pattern)
             IN  [res |-> Ret([i \in 1 .. Len(yielded) |-> get_unchecked(yielded[i])]),
                  calls |-> yielded]

\* with_locations pairing each Location with the cell of the transposed Location
with_locations_transposed(self, pattern) ==
    LET r == SingleView_range(self)
    IN  IF IsPanic(r) THEN [res |-> r, calls |-> <<>>]
        ELSE LET yielded == Consume(r.val, pattern)
                 t(loc) == Location_new(Row(loc.column.n), Column(loc.row.n))
             IN  [res |-> Ret([i \in 1 .. Len(yielded) |->
                                 <<yielded[i], get_unchecked(t(yielded[i]))>>]),
                  calls |-> [i \in 1 .. Len(yielded) |-> t(yielded[i])]]

\* SingleView::with_locations: self.range().map(move |loc| (loc, unsafe { grid.get_unchecked(&loc) }))
with_locations(self, pattern) ==
    LET r == SingleView_range(self)
    IN  IF IsPanic(r) THEN [res |-> r, calls |-> <<>>]
        ELSE LET yielded == Consume(r.val, pattern)
             IN  [res |-> Ret([i \in 1 .. Len(yielded) |->
                                 <<yielded[i], get_unchecked(yielded[i])>>]),
                  calls |-> yielded]

\* with_component pairing each cell with the view's own index instead of the
\* cell's cross-axis coordinate
with_component_pairs_index(self, pattern) ==
    LET r == range(Converse(self.index.axis))
    IN  IF IsPanic(r) THEN [res |-> r, calls |-> <<>>]
        ELSE LET yielded == Consume(r.val, pattern)
             IN  [res |-> Ret([i \in 1 .. Len(yielded) |->
                                 <<self.index, get_unchecked(combine(yielded[i], self.index))>>]),
                  calls |-> [i \in 1 .. Len(yielded) |-> combine(yielded[i], self.index)]]

\* SingleView::with_component: self.grid.range().map(move |cross|
\*     (cross, unsafe { grid.get_unchecked(&(cross.combine(index))) }))
with_component(self, pattern) ==
    LET r == range(Converse(self.index.axis))
    IN  IF IsPanic(r) THEN [res |-> r, calls |-> <<>>]
        ELSE LET yielded == Consume(r.val, pattern)
             IN  [res |-> Ret([i \in 1 .. Len(yielded) |->
                                 <<yielded[i], get_unchecked(combine(yielded[i], self.index))>>]),
                  calls |-> [i \in 1 .. Len(yielded) |-> combine(yielded[i], self.index)]]

\* impl Index<T::Converse> for SingleView:
\* self.get(idx).unwrap_or_else(|_err| panic!("{} out of range", T::name()))
SingleView_index(self, idx) ==
    LET g == SingleView_get(self, idx)
    IN  IF IsErr(g.res) THEN [res |-> Panic(name(self.index.axis)), calls |-> g.calls]
        ELSE IF IsPanic(g.res) THEN g
        ELSE [res |-> Ret(g.res.val), calls |-> g.calls]

-----------------------------------------------------------------------------
(* The program: construction of the grid, then calls in any order.         *)

\* all call sequences on a double-ended iterator of up to MaxExtent + 1 calls
Patterns == UNION {[1 .. k -> Ends] : k \in 0 .. (MaxExtent + 1)}

\* no call is in progress and no returned value is held
Idle == [op |-> "idle", arg |-> NoView, res |-> Ret(NoView), calls |-> <<>>]

\* a call has returned (or panicked): record it
Returned(op, arg, res, calls) ==
    /\ last' = [op |-> op, arg |-> arg, res |-> res, calls |-> calls]
    /\ halted' = IsPanic(res)

\* a call can be made: the program runs and has dropped the last returned value
Ready == ~halted /\ last.op = "idle"

\* a call that neither touches the storage nor the held view
PureCall(op, arg, res) ==
    /\ Ready
    /\ Returned(op, arg, res, <<>>)
    /\ UNCHANGED <<grid_vars, cells, view>>

\* the caller drops the value the last call returned
Drop ==
    /\ ~halted
    /\ last.op # "idle"
    /\ last' = Idle
    /\ UNCHANGED <<grid_vars, cells, view, halted>>

\* the grid's storage, as constructed: a cell for every Location in bounds
InitStorage ==
    /\ cells = StoredLocations
    /\ view = NoView
    /\ last = Idle
    /\ halted = FALSE

\* a negative root, the default root (GridBounds::root_row is Row(0)) and a
\* positive root
Roots == {-MaxRoot, 0, MaxRoot}

\* grids with an extent that is a count (0 or more), whose exclusive upper
\* bounds root + extent are representable
Init ==
    /\ root_row \in {Row(n) : n \in Roots}
    /\ root_column \in {Column(n) : n \in Roots}
    /\ num_rows \in {Rows(d) : d \in 0 .. MaxExtent}
    /\ num_columns \in {Columns(d) : d \in 0 .. MaxExtent}
    /\ root_row.n + num_rows.d \in ISize
    /\ root_column.n + num_columns.d \in ISize
    /\ overflow_checks \in BOOLEAN
    /\ InitStorage

\* every grid with a representable root and a representable extent that is a
\* count (0 or more): root + extent may exceed the integer range
InitWide ==
    /\ root_row \in RowSet
    /\ root_column \in ColumnSet
    /\ num_rows \in {Rows(d) : d \in 0 .. MaxInt}
    /\ num_columns \in {Columns(d) : d \in 0 .. MaxInt}
    /\ overflow_checks \in BOOLEAN
    /\ InitStorage

CheckRow(r) == PureCall("check_row", r, check_row(r))

CheckColumn(c) == PureCall("check_column", c, check_column(c))

RowInBounds(r) == PureCall("row_in_bounds", r, row_in_bounds(r))

ColumnInBounds(c) == PureCall("column_in_bounds", c, column_in_bounds(c))

CheckLocation(loc) == PureCall("check_location", loc, check_location(loc))

LocationInBounds(loc) == PureCall("location_in_bounds", loc, location_in_bounds(loc))

\* r.combine(c) or c.combine(r)
Combine(self, other) == PureCall("combine", <<self, other>>, Ret(combine(self, other)))

\* loc.get_component::<T>()
GetComponent(axis, loc) ==
    PureCall("get_component", <<axis, loc>>, Ret(get_component(axis, loc)))

\* grid.get(location)
GridGet(location) ==
    /\ Ready
    /\ LET g == get(location)
       IN  \E out \in Outcomes(g.res, g.calls) : Returned("get", location, out, g.calls)
    /\ UNCHANGED <<grid_vars, cells, view>>

\* grid.get_mut(location), the grid borrowed exclusively: no view is held any more
GridGetMut(location) ==
    /\ Ready
    /\ LET g == get_mut(location)
       IN  /\ \E out \in Outcomes(g.res, g.calls) : Returned("get_mut", location, out, g.calls)
           /\ cells' = g.grid
    /\ view' = NoView
    /\ UNCHANGED grid_vars

\* a call that returns Result<SingleView, RangeError>: the program holds the view
ViewCall(op, arg, res) ==
    /\ Ready
    /\ Returned(op, arg, res, <<>>)
    /\ view' = IF IsOk(res) THEN res.val ELSE view
    /\ UNCHANGED <<grid_vars, cells>>

GridSingleView(index) == ViewCall("single_view", index, single_view(index))

GridRow(r) == ViewCall("row", r, row(r))

GridColumn(c) == ViewCall("column", c, column(c))

\* grid.rows().get(index) / grid.columns().get(index)
ViewGet(index) == ViewCall("View::get", index, View_get(index))

\* grid.rows().iter() / grid.columns().iter() consumed by `pattern`; the program
\* may hold on to one of the SingleViews yielded
ViewIter(axis, pattern) ==
    /\ Ready
    /\ LET it == View_iter(axis, pattern)
       IN  /\ Returned("View::iter", <<axis, pattern>>, it, <<>>)
           /\ \/ view' = view
              \/ /\ ~IsPanic(it)
                 /\ \E k \in 1 .. Len(it.val) : view' = it.val[k]
    /\ UNCHANGED <<grid_vars, cells>>

\* a call on the held SingleView
HeldCall(op, arg, g) ==
    /\ Ready
    /\ view # NoView
    /\ \E out \in Outcomes(g.res, g.calls) : Returned(op, <<view, arg>>, out, g.calls)
    /\ UNCHANGED <<grid_vars, cells, view>>

SingleViewGet(cross) ==
    /\ view # NoView
    /\ cross.axis = Converse(view.index.axis)
    /\ HeldCall("SingleView::get", cross, SingleView_get(view, cross))

\* view[cross]
SingleViewIndex(cross) ==
    /\ view # NoView
    /\ cross.axis = Converse(view.index.axis)
    /\ HeldCall("SingleView::index", cross, SingleView_index(view, cross))

SingleViewIter(pattern) ==
    /\ view # NoView
    /\ HeldCall("SingleView::iter", pattern, SingleView_iter(view, pattern))

SingleViewWithLocations(pattern) ==
    /\ view # NoView
    /\ HeldCall("with_locations", pattern, with_locations(view, pattern))

SingleViewWithComponent(pattern) ==
    /\ view # NoView
    /\ HeldCall("with_component", pattern, with_component(view, pattern))

NextLocation ==
    \/ \E r \in RowSet, c \in ColumnSet : Combine(r, c)
    \/ \E r \in RowSet, c \in ColumnSet : Combine(c, r)
    \/ \E axis \in Axes, loc \in Locations : GetComponent(axis, loc)
    \/ Drop

NextBounds ==
    \/ \E r \in RowSet : CheckRow(r)
    \/ \E c \in ColumnSet : CheckColumn(c)
    \/ \E r \in RowSet : RowInBounds(r)
    \/ \E c \in ColumnSet : ColumnInBounds(c)
    \/ \E loc \in Locations : CheckLocation(loc)
    \/ \E loc \in Locations : LocationInBounds(loc)
    \/ Drop

NextAccess ==
    \/ \E loc \in Locations : GridGet(loc)
    \/ \E loc \in Locations : GridGetMut(loc)
    \/ \E index \in RowSet \cup ColumnSet : GridSingleView(index)
    \/ \E r \in RowSet : GridRow(r)
    \/ \E c \in ColumnSet : GridColumn(c)
    \/ \E index \in RowSet \cup ColumnSet : ViewGet(index)
    \/ \E axis \in Axes, pattern \in Patterns : ViewIter(axis, pattern)
    \/ \E cross \in RowSet \cup ColumnSet : SingleViewGet(cross)
    \/ \E cross \in RowSet \cup ColumnSet : SingleViewIndex(cross)
    \/ \E pattern \in Patterns : SingleViewIter(pattern)
    \/ \E pattern \in Patterns : SingleViewWithLocations(pattern)
    \/ \E pattern \in Patterns : SingleViewWithComponent(pattern)
    \/ Drop

\* the checked operations alone
NextChecked ==
    \/ \E r \in RowSet : CheckRow(r)
    \/ \E c \in ColumnSet : CheckColumn(c)
    \/ \E loc \in Locations : CheckLocation(loc)
    \/ \E loc \in Locations : GridGet(loc)
    \/ \E r \in RowSet : GridRow(r)
    \/ \E c \in ColumnSet : GridColumn(c)
    \/ \E cross \in RowSet \cup ColumnSet : SingleViewGet(cross)
    \/ Drop

Next == NextLocation \/ NextBounds \/ NextAccess

\* the whole program
Spec == Init /\ [][Next]_vars

\* the coordinate component model
SpecLocation == Init /\ [][NextLocation]_vars

\* the bounds contract
SpecBounds == Init /\ [][NextBounds]_vars

\* the access layer and the view / iteration layer
SpecAccess == Init /\ [][NextAccess]_vars

\* the checked operations on every representable grid
SpecWide == InitWide /\ [][NextChecked]_vars

-----------------------------------------------------------------------------
(* Properties.                                                             *)

Min(a, b) == IF a < b THEN a ELSE b

\* the result of the last call is a value the call returned, not a panic
ReturnedResult == last.res.tag \in {"Ok", "Err"}

\* n lies in the half-open range of an axis, over the integers
InRange(axis, n) ==
    /\ root_of(axis).n <= n
    /\ n < root_of(axis).n + extent_of(axis).d

\* C1: check_location(L) succeeds iff root_row <= L.row < root_row + num_rows
\* and root_column <= L.column < root_column + num_columns; when it succeeds
\* it returns L unchanged; location_in_bounds(L) is true exactly in that case.
C1_CheckLocationIffInBounds ==
    /\ last.op = "check_location" =>
           /\ ReturnedResult
           /\ IsOk(last.res) <=>
                  /\ root_row.n <= last.arg.row.n
                  /\ last.arg.row.n < root_row.n + num_rows.d
                  /\ root_column.n <= last.arg.column.n
                  /\ last.arg.column.n < root_column.n + num_columns.d
           /\ IsOk(last.res) => last.res.val = last.arg
    /\ last.op = "location_in_bounds" =>
           last.res = Ret(/\ root_row.n <= last.arg.row.n
                          /\ last.arg.row.n < root_row.n + num_rows.d
                          /\ root_column.n <= last.arg.column.n
                          /\ last.arg.column.n < root_column.n + num_columns.d)

\* check_location has succeeded on a grid whose root is not the origin
C1_Witness ==
    /\ last.op = "check_location"
    /\ IsOk(last.res)
    /\ root_row.n < 0
    /\ root_column.n > 0
    /\ last.arg = Location_new(Row(root_row.n + num_rows.d - 1), root_column)

\* C2: check_row(root_row - 1) returns TooLow(root_row) and
\* check_row(root_row + num_rows) returns TooHigh(root_row + num_rows): the
\* payload is the excluded boundary itself; the same for check_column.
C2_BoundaryPayloads ==
    /\ (last.op = "check_row" /\ last.arg.n = root_row.n - 1) =>
           last.res = Err(TooLow(Row(root_row.n)))
    /\ (last.op = "check_row" /\ last.arg.n = root_row.n + num_rows.d) =>
           last.res = Err(TooHigh(Row(root_row.n + num_rows.d)))
    /\ (last.op = "check_column" /\ last.arg.n = root_column.n - 1) =>
           last.res = Err(TooLow(Column(root_column.n)))
    /\ (last.op = "check_column" /\ last.arg.n = root_column.n + num_columns.d) =>
           last.res = Err(TooHigh(Column(root_column.n + num_columns.d)))

\* check_row was called with the excluded upper boundary of a grid that has rows
C2_Witness ==
    /\ last.op = "check_row"
    /\ num_rows.d = MaxExtent
    /\ root_row.n # 0
    /\ last.arg.n = root_row.n + num_rows.d
    /\ IsErr(last.res)
    /\ last.res.err.kind = "TooHigh"

\* C3: check_location checks the row first and short-circuits: whenever L.row
\* is out of range the result is the row-tagged error of check_row(L.row), also
\* when L.column is out of range too; the column-tagged error of
\* check_column(L.column) is returned only when the row is in range.
C3_RowErrorFirst ==
    last.op = "check_location" =>
        /\ ~InRange("Row", last.arg.row.n) =>
               /\ IsErr(check_row(last.arg.row))
               /\ last.res = Err([variant |-> "Row", e |-> check_row(last.arg.row).err])
        /\ (IsErr(last.res) /\ last.res.err.variant = "Column") =>
               /\ InRange("Row", last.arg.row.n)
               /\ ~InRange("Column", last.arg.column.n)
               /\ IsErr(check_column(last.arg.column))
               /\ last.res.err.e = check_column(last.arg.column).err
        /\ (InRange("Row", last.arg.row.n) /\ ~InRange("Column", last.arg.column.n)) =>
               /\ IsErr(last.res)
               /\ last.res.err.variant = "Column"
        /\ (root_row.n = 0 /\ root_column.n = 0
                /\ last.arg = Location_new(Row(num_rows.d), Column(0))) =>
               last.res = Err([variant |-> "Row", e |-> TooHigh(Row(num_rows.d))])
        /\ (root_row.n = 0 /\ root_column.n = 0 /\ num_rows.d > 0
                /\ last.arg = Location_new(Row(0), Column(num_columns.d))) =>
               last.res = Err([variant |-> "Column", e |-> TooHigh(Column(num_columns.d))])

\* check_location was called with a Location out of range on both axes
C3_Witness ==
    /\ last.op = "check_location"
    /\ last.arg.row.n >= root_row.n + num_rows.d
    /\ last.arg.column.n < root_column.n
    /\ num_rows.d > 0
    /\ num_columns.d > 0
    /\ IsErr(last.res)
    /\ last.res.err.variant = "Row"

\* C9: r.combine(c) produces a Location L with L.row = r and L.column = c, and
\* L.get_component::<Row>() = r and L.get_component::<Column>() = c;
\* c.combine(r) produces the same Location; get_component::<T>() of any
\* Location is its component on T's axis.
C9_CombineRoundTrip ==
    /\ last.op = "combine" =>
           \E r \in RowSet, c \in ColumnSet :
               /\ {r, c} = {last.arg[1], last.arg[2]}
               /\ last.res = Ret([row |-> r, column |-> c])
               /\ get_component("Row", last.res.val) = r
               /\ get_component("Column", last.res.val) = c
    /\ last.op = "get_component" =>
           \E r \in RowSet, c \in ColumnSet :
               /\ last.arg[2] = [row |-> r, column |-> c]
               /\ last.res = Ret(IF last.arg[1] = "Row" THEN r ELSE c)

\* a Column was combined with a Row whose number differs from its own
C9_Witness ==
    /\ last.op = "combine"
    /\ last.arg[1].axis = "Column"
    /\ last.arg[1].n # last.arg[2].n
    /\ last.res.val.row = last.arg[2]

\* C10: no checked operation panics or aborts: on every grid whose root and
\* extent are representable, check_row, check_column, check_location, get,
\* row / column and SingleView::get return the success value or a RangeError /
\* LocationRangeError, also when root + extent exceeds the integer range.
C10_NoCheckedPanic ==
    last.op \in {"check_row", "check_column", "check_location", "get",
                 "row", "column", "SingleView::get"} =>
        /\ ReturnedResult
        /\ ~halted

-----------------------------------------------------------------------------
(* Properties of the access layer and of the views.                        *)

\* the index a SingleView carries is in range on its axis
ValidView(v) == v.tag = "SingleView" /\ InRange(v.index.axis, v.index.n)

\* a pattern that calls only `end`
OnlyCalls(pattern, end) == \A i \in 1 .. Len(pattern) : pattern[i] = end

\* C4: every Location handed to the unchecked access primitive by a safe
\* operation, in any sequence of them, is in bounds for the grid; every
\* SingleView produced by a safe constructor or by View::iter, and the one the
\* program holds, carries an index that is in range on its axis.
C4_UncheckedOnlyInBounds ==
    /\ \A i \in 1 .. Len(last.calls) :
           /\ root_row.n <= last.calls[i].row.n
           /\ last.calls[i].row.n < root_row.n + num_rows.d
           /\ root_column.n <= last.calls[i].column.n
           /\ last.calls[i].column.n < root_column.n + num_columns.d
    /\ view.tag = "SingleView" => ValidView(view)
    /\ (last.op \in {"single_view", "row", "column", "View::get"} /\ IsOk(last.res)) =>
           ValidView(last.res.val)
    /\ last.op = "View::iter" =>
           \A i \in 1 .. Len(last.res.val) : ValidView(last.res.val[i])

\* the view of the last column is held and its with_component iterator has
\* made an unchecked access for every row
C4_Witness ==
    /\ last.op = "with_component"
    /\ Len(last.calls) = MaxExtent
    /\ view.tag = "SingleView"
    /\ view.index.axis = "Column"
    /\ view.index.n = root_column.n + num_columns.d - 1
    /\ num_columns.d > 1

\* C5: get(L) and get_mut(L) have the same outcome shape: each returns the
\* cell that the unchecked primitive gives at exactly L iff check_location(L)
\* succeeds, and otherwise returns check_location(L)'s error unchanged, without
\* invoking the unchecked primitive and without changing the grid.
C5_CheckThenDelegate ==
    last.op \in {"get", "get_mut"} =>
        /\ ReturnedResult
        /\ IsOk(last.res) <=> IsOk(check_location(last.arg))
        /\ IsOk(last.res) =>
               /\ last.res.val = [cell_at |-> last.arg]
               /\ last.calls = <<last.arg>>
        /\ IsErr(last.res) =>
               /\ last.res = check_location(last.arg)
               /\ last.calls = <<>>
               /\ cells = StoredLocations
               /\ ~halted

\* get_mut has failed on the column of a Location whose row is in range
C5_Witness ==
    /\ last.op = "get_mut"
    /\ IsErr(last.res)
    /\ last.res.err.variant = "Column"
    /\ cells # {}

\* C6: rows().iter() yields exactly num_rows SingleViews with the indices
\* root_row, root_row + 1, ..., root_row + num_rows - 1 in that order;
\* consumed from the back it yields the same indices in descending order;
\* every call of iter() starts from root_row again.  The same for
\* columns().iter() with root_column and num_columns.  (k calls yield the
\* first k of them, and all of them once k reaches the extent.)
C6_ViewIterOrder ==
    last.op = "View::iter" =>
        LET axis == last.arg[1]
            pattern == last.arg[2]
            root == IF axis = "Row" THEN root_row.n ELSE root_column.n
            n == IF axis = "Row" THEN num_rows.d ELSE num_columns.d
            items == last.res.val
        IN  /\ last.res.tag = "Ret"
            /\ Len(items) = Min(Len(pattern), n)
            /\ OnlyCalls(pattern, "next") =>
                   \A i \in 1 .. Len(items) :
                       items[i] = [tag |-> "SingleView",
                                   index |-> [axis |-> axis, n |-> root + i - 1]]
            /\ OnlyCalls(pattern, "next_back") =>
                   \A i \in 1 .. Len(items) :
                       items[i] = [tag |-> "SingleView",
                                   index |-> [axis |-> axis, n |-> root + n - i]]
            /\ \A i, j \in 1 .. Len(items) : i # j => items[i] # items[j]

\* rows().iter() was consumed from the back until it was exhausted
C6_Witness ==
    /\ last.op = "View::iter"
    /\ last.arg[1] = "Row"
    /\ num_rows.d = MaxExtent
    /\ root_row.n # 0
    /\ Len(last.arg[2]) = MaxExtent + 1
    /\ OnlyCalls(last.arg[2], "next_back")
    /\ Len(last.res.val) = MaxExtent

\* the Location of the i-th cell (i from 0) of a SingleView with index idx
NthLocation(idx, i) ==
    IF idx.axis = "Row"
    THEN [row |-> idx, column |-> Column(root_column.n + i)]
    ELSE [row |-> Row(root_row.n + i), column |-> idx]

\* C7: for a SingleView over an in-range row r, iter() yields exactly
\* num_columns cell references and with_locations() yields the same cells in
\* the same order, the i-th one (i from 0) paired with Location
\* (r, root_column + i) and being the cell stored at that Location;
\* symmetrically for a column c with Locations (root_row + i, c).
C7_SingleViewIter ==
    last.op \in {"SingleView::iter", "with_locations"} =>
        LET v == last.arg[1]
            pattern == last.arg[2]
            n == IF v.index.axis = "Row" THEN num_columns.d ELSE num_rows.d
            items == last.res.val
        IN  /\ last.res.tag = "Ret"
            /\ Len(items) = Min(Len(pattern), n)
            /\ OnlyCalls(pattern, "next") =>
                   \A i \in 1 .. Len(items) :
                       /\ NthLocation(v.index, i - 1) \in cells
                       /\ last.op = "SingleView::iter" =>
                              items[i] = [cell_at |-> NthLocation(v.index, i - 1)]
                       /\ last.op = "with_locations" =>
                              items[i] = <<NthLocation(v.index, i - 1),
                                           [cell_at |-> NthLocation(v.index, i - 1)]>>

\* with_locations() of a column view was consumed from the front to its end
C7_Witness ==
    /\ last.op = "with_locations"
    /\ last.arg[1].index.axis = "Column"
    /\ num_rows.d = MaxExtent
    /\ num_columns.d > 1
    /\ root_row.n # root_column.n
    /\ OnlyCalls(last.arg[2], "next")
    /\ Len(last.res.val) = MaxExtent

\* C8: indexing a row SingleView with a column outside
\* [root_column, root_column + num_columns) panics, while get with the same
\* value returns TooLow(root_column) or TooHigh(root_column + num_columns)
\* and the program goes on; inside the range both return the cell at
\* (row index, column).  Symmetric for a column view and a row value.
C8_IndexPanicsGetReturns ==
    last.op \in {"SingleView::get", "SingleView::index"} =>
        LET v == last.arg[1]
            cross == last.arg[2]
            root == IF cross.axis = "Row" THEN root_row.n ELSE root_column.n
            n == IF cross.axis = "Row" THEN num_rows.d ELSE num_columns.d
            loc == IF cross.axis = "Column" THEN [row |-> v.index, column |-> cross]
                   ELSE [row |-> cross, column |-> v.index]
            cell == [cell_at |-> loc]
        IN  /\ cross.axis # v.index.axis
            /\ (root <= cross.n /\ cross.n < root + n) =>
                   /\ last.op = "SingleView::get" => last.res = Ok(cell)
                   /\ last.op = "SingleView::index" => last.res = Ret(cell)
                   /\ ~halted
            /\ cross.n < root =>
                   /\ last.op = "SingleView::get" =>
                          /\ last.res = Err(TooLow([axis |-> cross.axis, n |-> root]))
                          /\ ~halted
                   /\ last.op = "SingleView::index" => IsPanic(last.res) /\ halted
            /\ cross.n >= root + n =>
                   /\ last.op = "SingleView::get" =>
                          /\ last.res = Err(TooHigh([axis |-> cross.axis, n |-> root + n]))
                          /\ ~halted
                   /\ last.op = "SingleView::index" => IsPanic(last.res) /\ halted

\* a row view was indexed with the excluded upper column boundary
C8_Witness ==
    /\ last.op = "SingleView::index"
    /\ last.arg[1].index.axis = "Row"
    /\ last.arg[2].n = root_column.n + num_columns.d
    /\ IsPanic(last.res)
    /\ halted

\* C11: for every SingleView, over a row or over a column, with_component()
\* yields the same cells in the same order and of the same length as
\* with_locations(): the i-th pair (x, cell) of with_component() and the i-th
\* pair (loc, cell') of with_locations(), consumed by the same calls, satisfy
\* cell = cell', x = loc's converse-axis component, and loc's primary-axis
\* component = the view's index.
C11_WithComponentMatchesLocations ==
    last.op = "with_component" =>
        LET v == last.arg[1]
            pattern == last.arg[2]
            primary == v.index.axis
            cross == IF primary = "Row" THEN "Column" ELSE "Row"
            wl == with_locations(v, pattern).res
        IN  /\ last.res.tag = "Ret"
            /\ wl.tag = "Ret"
            /\ Len(last.res.val) = Len(wl.val)
            /\ \A i \in 1 .. Len(wl.val) :
                   /\ last.res.val[i][2] = wl.val[i][2]
                   /\ last.res.val[i][1].axis = cross
                   /\ last.res.val[i][1] =
                          (IF cross = "Row" THEN wl.val[i][1].row ELSE wl.val[i][1].column)
                   /\ (IF primary = "Row" THEN wl.val[i][1].row ELSE wl.val[i][1].column)
                          = v.index

\* with_component() of a row view was consumed from both ends over all columns
C11_Witness ==
    /\ last.op = "with_component"
    /\ last.arg[1].index.axis = "Row"
    /\ num_columns.d = MaxExtent
    /\ num_rows.d > 1
    /\ root_row.n # root_column.n
    /\ last.arg[2] = <<"next_back", "next">>
    /\ Len(last.res.val) = MaxExtent
    /\ last.res.val[1][1] = Column(root_column.n + num_columns.d - 1)

====
